---- MODULE Spec2Model ----
(***************************************************************************)
(* A model of the resume/job matching pipeline of main.py:                 *)
(*   - ResumeParser.parse, the line-classification loop (SpecParse);       *)
(*   - rank_jobs with cosine_similarity and JobCSVHandler.save_jobs        *)
(*     (SpecRank);                                                         *)
(*   - JobFetcher.fetch_jobs, the paging loop (SpecFetch, FairSpecFetch);  *)
(*   - JobCSVHandler.load_jobs (SpecLoad).                                 *)
(* Each specification moves its own variables and leaves the others at     *)
(* their initial values.                                                   *)
(***************************************************************************)
EXTENDS Integers, Sequences, FiniteSets, TLC

VARIABLES
    \* ---- ResumeParser ----
    resume_text,      \* self.resume_text: a sequence of characters
    pcP,              \* position in parse(): "ready", "loop", "done"
    lines,            \* self.resume_text.splitlines()
    idx,              \* index of the line the for loop reads next
    current_section,  \* local current_section of parse() (None or a key)
    sections,         \* local sections of parse(): key -> list of lines
    parsed_sections,  \* self.parsed_sections
    curAt,            \* history: current_section when each line was read
    \* ---- external storage ----
    files,            \* file name -> the file's state
    \* ---- rank_jobs ----
    jobs,             \* the caller's candidate records (dicts, changed in place)
    rankArgs,         \* arguments of the last rank_jobs call
    rankStatus,       \* "idle", "returned" or "raised" (the last call's outcome)
    ranked,           \* the last call's return value
    providerCalls,    \* the calls the last rank_jobs made on the provider
    job_embeddings,   \* what get_embeddings_batch returned in the last call
    \* ---- JobFetcher.fetch_jobs ----
    max_jobs,         \* the max_jobs argument
    pcF,              \* position in fetch_jobs(): "loop", "after", "done"
    fetched,          \* the local list jobs of fetch_jobs()
    page,             \* the local page
    requests,         \* the page numbers requested so far, in order
    lastResponse,     \* the response to the last request
    fetchRet,         \* the return value
    fetchRaised,      \* whether fetch_jobs raised
    \* ---- JobCSVHandler.load_jobs ----
    loadStatus,       \* "idle", "returned" or "raised" (the last call's outcome)
    loadArg,          \* the filename argument of the last call
    readError,        \* what pd.read_csv raised in the last call (None: nothing)
    loadRet           \* the last call's return value <<records, table>>

parseVars == <<resume_text, pcP, lines, idx, current_section, sections,
               parsed_sections, curAt>>

rankVars == <<jobs, rankArgs, rankStatus, ranked, providerCalls, job_embeddings>>

fetchVars == <<max_jobs, pcF, fetched, page, requests, lastResponse, fetchRet,
               fetchRaised>>

loadVars == <<loadStatus, loadArg, readError, loadRet>>

vars == <<parseVars, files, rankVars, fetchVars, loadVars>>

None == "None"

(***************************************************************************)
(* Text.  A text is a sequence of characters.  The characters of the model *)
(* are a line break, a blank, a lower-case and an upper-case letter that   *)
(* belong to no section word, and two whole words standing for the run of  *)
(* characters that spells them: "Skills" and "education".  No word of      *)
(* SECTION_PATTERNS is spelled across two characters of the model.         *)
(***************************************************************************)
MaxTextLen == 5

Alphabet == {"\n", " ", "x", "X", "Skills", "education"}

LineBreaks == {"\n"}

Whitespace == {" ", "\n"}

Texts == UNION {[1..n -> Alphabet] : n \in 0..MaxTextLen}

\* str.lower, character by character
LowerChar(c) ==
    CASE c = "X" -> "x"
      [] c = "Skills" -> "skills"
      [] OTHER -> c

lower(s) == [i \in 1..Len(s) |-> LowerChar(s[i])]

\* str.strip(): leading and trailing whitespace removed
RECURSIVE lstrip(_)
lstrip(s) ==
    IF s = <<>> THEN <<>>
    ELSE IF Head(s) \in Whitespace THEN lstrip(Tail(s)) ELSE s

RECURSIVE rstrip(_)
rstrip(s) ==
    IF s = <<>> THEN <<>>
    ELSE IF s[Len(s)] \in Whitespace THEN rstrip(SubSeq(s, 1, Len(s) - 1)) ELSE s

strip(s) == rstrip(lstrip(s))

\* str.splitlines(): split at line breaks; no empty last line after a final break
RECURSIVE splitlines(_)
splitlines(s) ==
    IF s = <<>> THEN <<>>
    ELSE LET brk == {i \in 1..Len(s) : s[i] \in LineBreaks}
         IN  IF brk = {} THEN <<s>>
             ELSE LET i == CHOOSE j \in brk : \A k \in brk : j <= k
                  IN  <<SubSeq(s, 1, i - 1)>> \o splitlines(SubSeq(s, i + 1, Len(s)))

\* "\n".join(v)
RECURSIVE join(_)
join(v) ==
    IF v = <<>> THEN <<>>
    ELSE IF Len(v) = 1 THEN v[1]
    ELSE v[1] \o <<"\n">> \o join(Tail(v))

(***************************************************************************)
(* ResumeParser                                                            *)
(***************************************************************************)
\* SECTION_PATTERNS in the dict's insertion order; each pattern is an
\* alternation of literal words
SECTION_PATTERNS == <<
    [key |-> "experience", words |-> {"experience", "work history", "employment"}],
    [key |-> "education", words |-> {"education", "academic background"}],
    [key |-> "skills", words |-> {"skills", "technical skills", "abilities"}],
    [key |-> "projects", words |-> {"projects", "personal projects", "academic projects"}],
    [key |-> "leadership & awards",
     words |-> {"leadership", "awards", "honors", "scholarship"}] >>

SectionKeys == {SECTION_PATTERNS[i].key : i \in 1..Len(SECTION_PATTERNS)}

\* re.search(pat, s) for an alternation of literal words: some word occurs in s
re_search(words, s) == \E i \in 1..Len(s) : s[i] \in words

\* the positions of SECTION_PATTERNS whose pattern is found in the lower-cased line
MatchingPatterns(clean_line) ==
    {i \in 1..Len(SECTION_PATTERNS) :
        re_search(SECTION_PATTERNS[i].words, lower(clean_line))}

\* the key the inner for loop breaks on: the first pattern, in the dict's
\* order, that is found
FirstMatchLast(clean_line) ==
    LET m == MatchingPatterns(clean_line)
    IN  SECTION_PATTERNS[CHOOSE i \in m : \A j \in m : j <= i].key

FirstMatch(clean_line) ==
    LET m == MatchingPatterns(clean_line)
    IN  SECTION_PATTERNS[CHOOSE i \in m : \A j \in m : i <= j].key

\* what line 73 appends to sections[current_section]
StoredLower(clean_line) == lower(clean_line)

Stored(clean_line) == clean_line

ParseStartState ==
    /\ pcP = "ready"
    /\ lines = <<>>
    /\ idx = 1
    /\ current_section = None
    /\ sections = [k \in SectionKeys |-> <<>>]
    /\ parsed_sections = <<>>
    /\ curAt = <<>>

\* lines 60-63: the locals, and the lines the loop will read
ParseStart ==
    /\ pcP = "ready"
    /\ sections' = [k \in SectionKeys |-> <<>>]
    /\ current_section' = None
    /\ lines' = splitlines(resume_text)
    /\ idx' = 1
    /\ curAt' = <<>>
    /\ pcP' = "loop"
    /\ UNCHANGED <<resume_text, parsed_sections, files, rankVars, fetchVars, loadVars>>

\* lines 63-73: one iteration of the for loop
ParseLine ==
    /\ pcP = "loop"
    /\ idx <= Len(lines)
    /\ LET clean_line == strip(lines[idx])
       IN  IF clean_line = <<>>
           THEN UNCHANGED <<current_section, sections>>
           ELSE IF MatchingPatterns(clean_line) # {}
           THEN /\ current_section' = FirstMatch(clean_line)
                /\ UNCHANGED sections
           ELSE /\ UNCHANGED current_section
                /\ sections' =
                     IF current_section # None
                     THEN [sections EXCEPT ![current_section] =
                               Append(@, Stored(clean_line))]
                     ELSE sections
    /\ curAt' = Append(curAt, current_section)
    /\ idx' = idx + 1
    /\ UNCHANGED <<resume_text, pcP, lines, parsed_sections, files, rankVars,
                   fetchVars, loadVars>>

\* lines 75-80: the sections that have lines, joined and stripped
ParseFinish ==
    /\ pcP = "loop"
    /\ idx > Len(lines)
    /\ parsed_sections' =
         [k \in {s \in SectionKeys : sections[s] # <<>>} |-> strip(join(sections[k]))]
    /\ pcP' = "done"
    /\ UNCHANGED <<resume_text, lines, idx, current_section, sections, curAt,
                   files, rankVars, fetchVars, loadVars>>

NextParse == ParseStart \/ ParseLine \/ ParseFinish

(***************************************************************************)
(* External storage: JobCSVHandler.save_jobs                               *)
(***************************************************************************)
FileNames == {"jsearch_jobs_data.csv", "ranked_jobs.csv"}

Missing == [kind |-> "missing"]

NoFiles == [f \in FileNames |-> Missing]

\* lines 114-121: nothing is written for an empty list; otherwise the file
\* is overwritten with one row per record
save_jobs(fs, js, filename) ==
    IF js = <<>> THEN fs
    ELSE [fs EXCEPT ![filename] =
             [kind |-> "csv",
              header |-> UNION {DOMAIN js[i] : i \in 1..Len(js)},
              rows |-> js]]

(***************************************************************************)
(* Vectors and cosine_similarity.  The vectors of the model are non-zero,  *)
(* of one dimension, and chosen so that the product of two squared norms   *)
(* is a perfect square; a similarity is the exact fraction                 *)
(* <<u.v, |u||v|>>, with a positive denominator.                           *)
(***************************************************************************)
Vectors == {<<1, 0>>, <<3, 4>>}

Dot(u, v) == u[1] * v[1] + u[2] * v[2]

ISqrt(n) == CHOOSE r \in 0..n : r * r = n

\* lines 92-94: 1 - cosine(vec1, vec2), that is u.v / (|u||v|)
cosine_similarity(vec1, vec2) ==
    <<Dot(vec1, vec2), ISqrt(Dot(vec1, vec1) * Dot(vec2, vec2))>>

\* the order of two similarities
ScoreLess(a, b) == a[1] * b[2] < b[1] * a[2]

ScoreEq(a, b) == a[1] * b[2] = b[1] * a[2]

(***************************************************************************)
(* rank_jobs                                                               *)
(***************************************************************************)
MaxJobs == 2

MaxTopN == 3

TopNs == (-1)..MaxTopN

TextFields == {"title", "company", "description"}

\* a candidate record: the three text fields (any one may be absent) and a
\* location that tells the records of one list apart
FullJob(i) ==
    [title |-> "a", company |-> "c", description |-> "d",
     location |-> "L" \o ToString(i)]

Without(job, field) == [f \in (DOMAIN job) \ {field} |-> job[f]]

JobsAt(i) == {FullJob(i)} \cup {Without(FullJob(i), f) : f \in TextFields}

CandidateLists ==
    UNION {{js \in [1..n -> UNION {JobsAt(i) : i \in 1..n}] :
               \A i \in 1..n : js[i] \in JobsAt(i)} : n \in 0..MaxJobs}

\* s[:n] of Python
PySlice(s, n) ==
    IF n >= 0
    THEN SubSeq(s, 1, IF n < Len(s) THEN n ELSE Len(s))
    ELSE SubSeq(s, 1, Len(s) + n)

\* line 185: "if not jobs"
NoJobsNever(js) == FALSE

NoJobs(js) == js = <<>>

\* line 192: the text embedded for a candidate
job_text(job) == job["title"] \o " " \o job["company"] \o " " \o job["description"]

\* lines 194-195: zip(jobs, job_embeddings) pairs the two up to the shorter
\* one; each paired record gets its score
Scored(js, resume_embedding, embs) ==
    [i \in 1..Len(js) |->
        IF i <= Len(embs)
        THEN [f \in (DOMAIN js[i]) \cup {"similarity_score"} |->
                 IF f = "similarity_score"
                 THEN cosine_similarity(resume_embedding, embs[i])
                 ELSE js[i][f]]
        ELSE js[i]]

\* line 197: sorted(jobs, key=similarity_score, reverse=True), a stable sort:
\* each record goes after the records already placed whose score is not less
RECURSIVE InsertDescBeforeTies(_, _)
InsertDescBeforeTies(placed, job) ==
    IF placed = <<>> THEN <<job>>
    ELSE IF ScoreLess(job["similarity_score"], Head(placed)["similarity_score"])
         THEN <<Head(placed)>> \o InsertDescBeforeTies(Tail(placed), job)
         ELSE <<job>> \o placed

RECURSIVE InsertDesc(_, _)
InsertDesc(placed, job) ==
    IF placed = <<>> THEN <<job>>
    ELSE IF ScoreLess(Head(placed)["similarity_score"], job["similarity_score"])
         THEN <<job>> \o placed
         ELSE <<Head(placed)>> \o InsertDesc(Tail(placed), job)

RECURSIVE SortedDesc(_)
SortedDesc(js) ==
    IF js = <<>> THEN <<>>
    ELSE InsertDesc(SortedDesc(SubSeq(js, 1, Len(js) - 1)), js[Len(js)])

\* what get_embeddings_batch may return for n texts: HFEmbeddingService (used
\* when no service is passed) encodes each text; a service that is passed in
\* may return any number of vectors
BatchResults(embedding_service, n) ==
    IF embedding_service = None
    THEN [1..n -> Vectors]
    ELSE UNION {[1..m -> Vectors] : m \in 0..(n + 1)}

RankIdle ==
    /\ rankArgs = None
    /\ rankStatus = "idle"
    /\ ranked = <<>>
    /\ providerCalls = <<>>
    /\ job_embeddings = <<>>

InitRank ==
    /\ jobs \in CandidateLists
    /\ files = NoFiles
    /\ RankIdle

\* lines 183-199: one call of rank_jobs on the caller's records
rank_jobs(resume_embedding, top_n, embedding_service, output_csv) ==
    /\ rankArgs' = [resume_embedding |-> resume_embedding, top_n |-> top_n,
                    embedding_service |-> embedding_service]
    /\ IF NoJobs(jobs)
       THEN \* lines 185-187
            /\ rankStatus' = "returned"
            /\ ranked' = <<>>
            /\ providerCalls' = <<>>
            /\ job_embeddings' = <<>>
            /\ UNCHANGED <<jobs, files>>
       ELSE IF \E i \in 1..Len(jobs) : ~ (TextFields \subseteq DOMAIN jobs[i])
       THEN \* line 192: job['title'] of a record without the field, KeyError
            /\ rankStatus' = "raised"
            /\ ranked' = <<>>
            /\ providerCalls' = <<>>
            /\ job_embeddings' = <<>>
            /\ UNCHANGED <<jobs, files>>
       ELSE \E embs \in BatchResults(embedding_service, Len(jobs)) :
            LET job_texts == [i \in 1..Len(jobs) |-> job_text(jobs[i])]
                scored == Scored(jobs, resume_embedding, embs)
            IN  /\ providerCalls' =
                     <<[op |-> "get_embeddings_batch", texts |-> job_texts]>>
                /\ job_embeddings' = embs
                /\ jobs' = scored
                /\ IF \E i \in 1..Len(scored) :
                          "similarity_score" \notin DOMAIN scored[i]
                   THEN \* line 197: x["similarity_score"], KeyError
                        /\ rankStatus' = "raised"
                        /\ ranked' = <<>>
                        /\ UNCHANGED files
                   ELSE LET ranked_jobs == SortedDesc(scored)
                        IN  /\ files' = save_jobs(files, PySlice(ranked_jobs, top_n),
                                                  output_csv)
                            /\ ranked' = PySlice(ranked_jobs, top_n)
                            /\ rankStatus' = "returned"

RankJobs ==
    /\ rankStatus = "idle"
    /\ \E resume_embedding \in Vectors, top_n \in TopNs,
          embedding_service \in {None, "service"} :
          rank_jobs(resume_embedding, top_n, embedding_service, "ranked_jobs.csv")
    /\ UNCHANGED <<parseVars, fetchVars, loadVars>>

\* lines 239-245: the caller is done with the call's result; the records it
\* passed, and the files, stay as the call left them
CallerMovesOn ==
    /\ rankStatus # "idle"
    /\ rankArgs' = None
    /\ rankStatus' = "idle"
    /\ ranked' = <<>>
    /\ providerCalls' = <<>>
    /\ job_embeddings' = <<>>
    /\ UNCHANGED <<jobs, files, parseVars, fetchVars, loadVars>>

NextRank == RankJobs \/ CallerMovesOn

(***************************************************************************)
(* JobFetcher.fetch_jobs                                                   *)
(***************************************************************************)
MaxMaxJobs == 3

MaxPage == 2

\* JSON null, which response.json() turns into Python's None
Null == "null"

\* records of the API: with a city, without the job_city key, with a null city
RawJobs ==
    {[job_title |-> "t", job_city |-> "NYC", job_country |-> "US"],
     [job_title |-> "t", job_country |-> "US"],
     [job_title |-> "t", job_city |-> Null, job_country |-> "US"]}

\* before the first request
NoResponse == [kind |-> "none"]

PageData == UNION {[1..n -> RawJobs] : n \in 0..MaxPage}

\* what a request can come to: requests.get raises, a status other than
\* 200, or a 200 response with its data (an empty list when there is none)
Responses ==
    {[kind |-> "raise", exc |-> "ConnectionError"],
     [kind |-> "response", status_code |-> 500]}
    \cup {[kind |-> "response", status_code |-> 200, data |-> d] : d \in PageData}

\* dict.get(key, default)
get(d, key, default) == IF key \in DOMAIN d THEN d[key] ELSE default

\* line 162: str + str raises TypeError when job_city or job_country is None
ConvertRaises(job) ==
    Null \in {get(job, "job_city", ""), get(job, "job_country", "")}

\* lines 156-163
Converted(job) ==
    [title |-> get(job, "job_title", ""),
     company |-> get(job, "employer_name", ""),
     publisher |-> get(job, "job_publisher", ""),
     employment_type |-> get(job, "job_employment_type", ""),
     description |-> get(job, "job_description", ""),
     location |-> get(job, "job_city", "") \o ", " \o get(job, "job_country", "")]

\* lines 169-171: "except Exception" takes whatever the try block raised
FetchCatches(exc) == TRUE

\* line 173: jobs[:max_jobs]
TruncateNothing(js, n) == js

Truncate(js, n) == PySlice(js, n)

InitFetch ==
    /\ max_jobs \in 0..MaxMaxJobs
    /\ pcF = "loop"
    /\ fetched = <<>>
    /\ page = 1
    /\ requests = <<>>
    /\ lastResponse = NoResponse
    /\ fetchRet = <<>>
    /\ fetchRaised = FALSE

\* lines 169-171 for an exception of the try block: caught, and the loop is
\* left; an exception that is not caught leaves fetch_jobs
Except(exc) ==
    IF FetchCatches(exc)
    THEN pcF' = "after" /\ UNCHANGED fetchRaised
    ELSE pcF' = "done" /\ fetchRaised' = TRUE

\* lines 142-171: one iteration of the while loop
FetchPage ==
    /\ pcF = "loop"
    /\ Len(fetched) < max_jobs
    /\ \E resp \in Responses :
          /\ requests' = Append(requests, page)
          /\ lastResponse' = resp
          /\ IF resp.kind = "raise"
             THEN /\ Except(resp.exc)
                  /\ UNCHANGED <<fetched, page>>
             ELSE IF resp.status_code # 200 \/ resp.data = <<>>
             THEN /\ pcF' = "after"
                  /\ UNCHANGED <<fetched, page, fetchRaised>>
             ELSE LET bad == {i \in 1..Len(resp.data) : ConvertRaises(resp.data[i])}
                      n == IF bad = {} THEN Len(resp.data)
                           ELSE (CHOOSE i \in bad : \A j \in bad : i <= j) - 1
                  IN  /\ fetched' = fetched \o [i \in 1..n |-> Converted(resp.data[i])]
                      /\ IF bad # {}
                         THEN /\ Except("TypeError")
                              /\ UNCHANGED page
                         ELSE /\ page' = page + 1
                              /\ pcF' = IF Len(fetched') >= max_jobs
                                        THEN "after" ELSE "loop"
                              /\ UNCHANGED fetchRaised
    /\ UNCHANGED <<max_jobs, fetchRet, files, parseVars, rankVars, loadVars>>

\* lines 173-178, reached by a break or when the while condition is false
FetchReturn ==
    /\ \/ pcF = "after"
       \/ pcF = "loop" /\ Len(fetched) >= max_jobs
    /\ LET js == Truncate(fetched, max_jobs)
       IN  /\ files' = IF js # <<>> THEN save_jobs(files, js, "jsearch_jobs_data.csv")
                       ELSE files
           /\ fetchRet' = js
    /\ pcF' = "done"
    /\ UNCHANGED <<max_jobs, fetched, page, requests, lastResponse, fetchRaised,
                   parseVars, rankVars, loadVars>>

NextFetch == FetchPage \/ FetchReturn

(***************************************************************************)
(* JobCSVHandler.load_jobs                                                 *)
(***************************************************************************)
MaxRows == 2

Rows == {[title |-> "a"], [title |-> "b"]}

\* a file is missing, of length zero, not readable as a table, or a table
FileStates ==
    {Missing, [kind |-> "zero"], [kind |-> "malformed"]}
    \cup {[kind |-> "csv", header |-> {"title"}, rows |-> r] :
             r \in UNION {[1..n -> Rows] : n \in 0..MaxRows}}

\* pd.DataFrame()
EmptyDataFrame == [columns |-> {}, rows |-> <<>>]

\* what pd.read_csv(filename) can come to
ReadOutcomes(file) ==
    CASE file.kind = "csv" ->
            {[kind |-> "ok", df |-> [columns |-> file.header, rows |-> file.rows]],
             [kind |-> "raise", exc |-> "OSError"]}
      [] file.kind = "malformed" -> {[kind |-> "raise", exc |-> "ParserError"]}
      [] file.kind = "zero" -> {[kind |-> "raise", exc |-> "EmptyDataError"]}
      [] OTHER -> {[kind |-> "raise", exc |-> "FileNotFoundError"]}

\* line 110: "except Exception"
LoadCatchesOSError(exc) == exc = "OSError"

LoadCatches(exc) == TRUE

\* line 104
MissingOrEmpty(file) == file.kind = "missing" \/ file.kind = "zero"

\* lines 102-112
load_jobs(filename) ==
    /\ loadArg' = filename
    /\ IF MissingOrEmpty(files[filename])
       THEN /\ loadRet' = << <<>>, EmptyDataFrame >>
            /\ readError' = None
            /\ loadStatus' = "returned"
       ELSE \E out \in ReadOutcomes(files[filename]) :
               IF out.kind = "ok"
               THEN /\ loadRet' = <<out.df.rows, out.df>>
                    /\ readError' = None
                    /\ loadStatus' = "returned"
               ELSE /\ readError' = out.exc
                    /\ IF LoadCatches(out.exc)
                       THEN /\ loadRet' = << <<>>, EmptyDataFrame >>
                            /\ loadStatus' = "returned"
                       ELSE /\ loadRet' = None
                            /\ loadStatus' = "raised"

LoadJobs ==
    /\ \E filename \in FileNames : load_jobs(filename)
    /\ UNCHANGED <<files, parseVars, rankVars, fetchVars>>

NextLoad == LoadJobs

LoadIdle ==
    /\ loadStatus = "idle"
    /\ loadArg = None
    /\ readError = None
    /\ loadRet = None

InitLoad ==
    /\ files \in [FileNames -> FileStates]
    /\ LoadIdle

FetchIdle ==
    /\ max_jobs = 0
    /\ pcF = "done"
    /\ fetched = <<>>
    /\ page = 1
    /\ requests = <<>>
    /\ lastResponse = NoResponse
    /\ fetchRet = <<>>
    /\ fetchRaised = FALSE

(***************************************************************************)
(* Specifications                                                          *)
(***************************************************************************)
ParseIdle ==
    /\ resume_text = <<>>
    /\ ParseStartState

InitParse ==
    /\ resume_text \in Texts
    /\ ParseStartState

ParseOnly ==
    /\ InitParse
    /\ files = NoFiles /\ jobs = <<>> /\ RankIdle /\ FetchIdle /\ LoadIdle

SpecParse == ParseOnly /\ [][NextParse]_vars

RankOnly == InitRank /\ ParseIdle /\ FetchIdle /\ LoadIdle

SpecRank == RankOnly /\ [][NextRank]_vars

FetchOnly ==
    /\ InitFetch
    /\ files = NoFiles /\ ParseIdle /\ jobs = <<>> /\ RankIdle /\ LoadIdle

SpecFetch == FetchOnly /\ [][NextFetch]_vars

\* fetch_jobs runs on: no step of it waits for anything but the response
FairSpecFetch == SpecFetch /\ WF_vars(NextFetch)

LoadOnly == InitLoad /\ ParseIdle /\ jobs = <<>> /\ RankIdle /\ FetchIdle

SpecLoad == LoadOnly /\ [][NextLoad]_vars

(***************************************************************************)
(* Properties of ResumeParser.parse                                        *)
(***************************************************************************)
\* line i of the text is non-blank and matches no section pattern
IsContentLine(i) ==
    /\ strip(lines[i]) # <<>>
    /\ \A p \in 1..Len(SECTION_PATTERNS) :
          ~ re_search(SECTION_PATTERNS[p].words, lower(strip(lines[i])))

\* the trimmed content lines read while current_section = S, in document order
ContentOf(S) ==
    LET at == SelectSeq([i \in 1..Len(lines) |-> i],
                        LAMBDA i : curAt[i] = S /\ IsContentLine(i))
    IN  [n \in 1..Len(at) |-> strip(lines[at[n]])]

BreaksIn(v) == Cardinality({i \in 1..Len(v) : v[i] = "\n"})

\* C5: when parse() has returned, a section is a key of the result exactly
\* when at least one non-blank line matching no pattern was read while it was
\* the current section, and its value is those trimmed lines, in document
\* order, separated by single line breaks; lines read while current_section
\* is None are in no section.
C5_ParsedSections ==
    pcP = "done" =>
        /\ DOMAIN parsed_sections = {S \in SectionKeys : ContentOf(S) # <<>>}
        /\ \A S \in DOMAIN parsed_sections :
              /\ splitlines(parsed_sections[S]) = ContentOf(S)
              /\ BreaksIn(parsed_sections[S]) = Len(ContentOf(S)) - 1
        /\ (\A i \in 1..Len(lines) : curAt[i] = None) => parsed_sections = <<>>

\* a finished parse whose result has a section of two lines
C5_Witness ==
    /\ pcP = "done"
    /\ \E S \in DOMAIN parsed_sections :
          Len(ContentOf(S)) = 2 /\ BreaksIn(parsed_sections[S]) = 1

\* C6: a step that reads a non-blank line matching at least one pattern sets
\* current_section to the first matching section of the declared order,
\* whatever the section was, and stores the line in no section.
C6_HeadingStep ==
    [][ (/\ pcP = "loop"
         /\ idx <= Len(lines)
         /\ strip(lines[idx]) # <<>>
         /\ ~ IsContentLine(idx))
        => (/\ \E p \in 1..Len(SECTION_PATTERNS) :
                  /\ re_search(SECTION_PATTERNS[p].words, lower(strip(lines[idx])))
                  /\ \A q \in 1..(p - 1) :
                        ~ re_search(SECTION_PATTERNS[q].words, lower(strip(lines[idx])))
                  /\ current_section' = SECTION_PATTERNS[p].key
            /\ sections' = sections) ]_vars

\* a line naming skills before education was read while the section was
\* skills, and the section is now education
C6_Witness ==
    /\ pcP = "loop"
    /\ idx > 1
    /\ curAt[idx - 1] = "skills"
    /\ \E i, j \in 1..Len(lines[idx - 1]) :
          i < j /\ lines[idx - 1][i] = "Skills" /\ lines[idx - 1][j] = "education"
    /\ current_section = "education"
    /\ sections = [k \in SectionKeys |-> <<>>]

(***************************************************************************)
(* Properties of rank_jobs                                                 *)
(***************************************************************************)
Score(job) == job["similarity_score"]

\* the position, in the list passed to the call, of a record of the result
InputIndex(r) == CHOOSE i \in 1..Len(jobs) : jobs[i]["location"] = r["location"]

Min(a, b) == IF a < b THEN a ELSE b

\* C1: a call on an empty candidate list returns the empty list and calls
\* neither get_embedding nor get_embeddings_batch, whatever the reference
\* vector, top_n and provider.
C1_EmptyCandidates ==
    (rankStatus # "idle" /\ jobs = <<>>) =>
        /\ rankStatus = "returned"
        /\ ranked = <<>>
        /\ providerCalls = <<>>

\* a call on the empty list, with no service passed, has returned
C1_Witness ==
    /\ jobs = <<>>
    /\ rankStatus = "returned"
    /\ rankArgs.embedding_service = None
    /\ rankArgs.top_n > 0

\* C2: a call on a non-empty list with top_n >= 0 and one vector per
\* candidate returns min(top_n, len) scored candidates, no score increases
\* along the result, no omitted candidate scores higher than a returned one,
\* and among equal scores the input order is kept (in the result, and
\* between a returned and an omitted candidate).
C2_StableTopN ==
    (/\ rankStatus = "returned"
     /\ jobs # <<>>
     /\ rankArgs.top_n >= 0
     /\ Len(job_embeddings) = Len(jobs)) =>
        LET returned == {InputIndex(ranked[p]) : p \in 1..Len(ranked)}
        IN  /\ Len(ranked) = Min(rankArgs.top_n, Len(jobs))
            /\ \A p \in 1..Len(ranked) : ranked[p] = jobs[InputIndex(ranked[p])]
            /\ Cardinality(returned) = Len(ranked)
            /\ \A p, q \in 1..Len(ranked) :
                  p < q =>
                     /\ ~ ScoreLess(Score(ranked[p]), Score(ranked[q]))
                     /\ ScoreEq(Score(ranked[p]), Score(ranked[q]))
                           => InputIndex(ranked[p]) < InputIndex(ranked[q])
            /\ \A j \in (1..Len(jobs)) \ returned : \A p \in 1..Len(ranked) :
                  /\ ~ ScoreLess(Score(ranked[p]), Score(jobs[j]))
                  /\ ScoreEq(Score(ranked[p]), Score(jobs[j]))
                        => InputIndex(ranked[p]) < j

\* two candidates with equal scores were ranked with top_n = 1, and the
\* first of the input was returned
C2_Witness ==
    /\ rankStatus = "returned"
    /\ Len(jobs) = 2
    /\ Len(job_embeddings) = 2
    /\ rankArgs.top_n = 1
    /\ ScoreEq(Score(jobs[1]), Score(jobs[2]))
    /\ ranked = <<jobs[1]>>

\* C3: when get_embeddings_batch returns a number of vectors that differs
\* from the number of candidates, the call fails with an error.
C3_LengthMismatchFails ==
    (/\ rankStatus # "idle"
     /\ providerCalls # <<>>
     /\ Len(job_embeddings) # Len(jobs)) => rankStatus = "raised"

FieldOrEmpty(job, f) == IF f \in DOMAIN job THEN job[f] ELSE ""

\* C4: when a candidate lacks title, company or description, the call
\* embeds the text built with the empty string for the missing field and
\* completes; it does not fail.
C4_MissingFieldIsEmpty ==
    (/\ rankStatus # "idle"
     /\ \E i \in 1..Len(jobs) : ~ (TextFields \subseteq DOMAIN jobs[i])) =>
        /\ rankStatus = "returned"
        /\ Len(providerCalls) = 1
        /\ \A i \in 1..Len(jobs) :
              providerCalls[1].texts[i] =
                 FieldOrEmpty(jobs[i], "title") \o " "
                    \o FieldOrEmpty(jobs[i], "company") \o " "
                    \o FieldOrEmpty(jobs[i], "description")

\* C8: a call of rank_jobs leaves external storage as it was.
C8_RankWritesNothing ==
    [][(rankStatus = "idle" /\ rankStatus' # "idle") => files' = files]_vars

\* C9: every score carried by a candidate of a call's result was computed in
\* that call, from the call's reference vector and the vector the call's
\* batch result holds for that candidate.
C9_ScoresFromThisCall ==
    rankStatus = "returned" =>
        \A p \in 1..Len(ranked) :
            /\ InputIndex(ranked[p]) <= Len(job_embeddings)
            /\ Score(ranked[p]) =
                  cosine_similarity(rankArgs.resume_embedding,
                                    job_embeddings[InputIndex(ranked[p])])

(***************************************************************************)
(* Properties of JobFetcher.fetch_jobs                                     *)
(***************************************************************************)
\* a response that ends the paging: a request error, a status other than
\* 200, or an empty page
StopResponse(r) ==
    IF r.kind = "none" THEN FALSE
    ELSE IF r.kind = "raise" THEN TRUE
    ELSE r.status_code # 200 \/ r.data = <<>>

FetchSafe ==
    /\ ~ fetchRaised
    /\ requests = [i \in 1..Len(requests) |-> i]
    /\ pcF = "done" =>
          /\ Len(fetchRet) <= max_jobs
          /\ fetchRet = SubSeq(fetched, 1, Len(fetchRet))
          /\ Len(fetched) >= max_jobs => Len(fetchRet) = max_jobs

\* C7: for every max_jobs >= 0 and every sequence of responses, fetch_jobs
\* does not raise, requests the pages 1, 2, 3, ... in order, makes no request
\* after a request error, a status other than 200 or an empty page, nor once
\* max_jobs records are collected, returns at most max_jobs records (exactly
\* max_jobs when that many were collected), and returns in the end.
C7_FetchStopsAndTruncates ==
    /\ []FetchSafe
    /\ [][(StopResponse(lastResponse) \/ Len(fetched) >= max_jobs)
             => requests' = requests]_vars
    /\ <>(pcF = "done")

\* two pages were requested, more than max_jobs records were collected and
\* max_jobs of them returned
C7_Witness ==
    /\ pcF = "done"
    /\ requests = <<1, 2>>
    /\ Len(fetched) > max_jobs
    /\ Len(fetchRet) = max_jobs
    /\ files["jsearch_jobs_data.csv"].kind = "csv"

(***************************************************************************)
(* Properties of JobCSVHandler.load_jobs                                   *)
(***************************************************************************)
\* C10: load_jobs does not raise; for a file that is missing or of length
\* zero, and whenever reading raised an error, it returns no records and an
\* empty table; otherwise the file was read and its rows are returned.
C10_LoadNeverRaises ==
    loadStatus # "idle" =>
        /\ loadStatus = "returned"
        /\ IF files[loadArg].kind \in {"missing", "zero"} \/ readError # None
           THEN loadRet = << <<>>, EmptyDataFrame >>
           ELSE /\ files[loadArg].kind = "csv"
                /\ loadRet[1] = files[loadArg].rows
                /\ loadRet[2].rows = files[loadArg].rows

\* reading a file that is no table raised, and the call returned nothing
C10_Witness ==
    /\ loadStatus = "returned"
    /\ files[loadArg].kind = "malformed"
    /\ readError = "ParserError"
    /\ loadRet = << <<>>, EmptyDataFrame >>

====
